---- MODULE Spec2Model ----
(***************************************************************************)
(* rss_to_email.py: the seen-article store (load_seen_articles,            *)
(* save_seen_articles), the per-feed scan of fetch_rss_articles, and the   *)
(* dispatch loop of __main__, as a state machine over successive process   *)
(* runs.  One run is: parse the arguments and load the state file, one     *)
(* loop iteration of fetch_rss_articles per feed, the save, and one        *)
(* dispatch per returned article.                                           *)
(***************************************************************************)
EXTENDS Integers, Sequences, FiniteSets, TLC

VARIABLES
    file,               \* seen_articles.json on disk: [kind, map]
    upstream,           \* what feedparser.parse(feed_url).entries is, per feed (links, newest first)
    pc,                 \* "idle" | "fetch" | "save" | "dispatch" | "done" | "crashed"
    exc,                \* the exception that ended the process ("" when none)
    max_articles,       \* args.max_articles of the current run
    output,             \* args.output of the current run
    seen_articles,      \* the dictionary of the current run (feed -> list of links)
    seen_is_dict,       \* FALSE when load_seen_articles returned a JSON value that is no object
    i,                  \* position of the for-loop of fetch_rss_articles in RSS_FEEDS
    new_seen_articles,  \* new_seen_articles of the last loop iteration
    articles,           \* the list fetch_rss_articles builds and returns
    k,                  \* position of the dispatch loop in articles (0 before it starts)
    results,            \* per dispatched article: "console" | "email" | "send_error" | "none" | "raised"
    logged,             \* indices of the articles whose send failure logging.error reported
    prev_run,           \* history: <<>> or <<r>>, the last run that saved while upstream stayed as it was
    emitted,            \* history: per feed, the links returned as new by earlier runs
    fixed_N             \* history: <<>> or <<n>>, the max_articles every run of the behaviour uses

vars == <<file, upstream, pc, exc, max_articles, output, seen_articles, seen_is_dict,
          i, new_seen_articles, articles, k, results, logged, prev_run, emitted, fixed_N>>

program == <<file, pc, exc, max_articles, output, seen_articles, seen_is_dict,
             i, new_seen_articles, articles, k, results, logged>>

-----------------------------------------------------------------------------
(* Bounds of the model *)

MaxN == 2

MaxEntries == 3

-----------------------------------------------------------------------------
(* The feeds and the entries they can carry *)

Min(a, b) == IF a <= b THEN a ELSE b

Max(a, b) == IF a >= b THEN a ELSE b

RSS_FEEDS == <<"f1", "f2">>

Feeds == {RSS_FEEDS[n] : n \in 1..Len(RSS_FEEDS)}

LinksOf(f) == IF f = "f1" THEN {"A", "B", "X", "Z"} ELSE {"P"}

\* entry.get("content", []) of the entry with this link, as the kind of its joined values
ContentOf(l) ==
    CASE l = "A" -> "text"
      [] l = "B" -> "none"
      [] l = "X" -> "none"
      [] l = "Z" -> "blank"
      [] OTHER   -> "text"

\* entry.get("description", "") of the entry with this link
DescriptionOf(l) ==
    CASE l = "A" -> "summary"
      [] l = "B" -> "summary"
      [] l = "X" -> ""
      [] l = "Z" -> "summary"
      [] OTHER   -> ""

SeqsUpTo(S, n) == UNION {[1..m -> S] : m \in 0..n}

Distinct(s) == \A m, n \in 1..Len(s) : m # n => s[m] # s[n]

\* the entry lists a feed can carry: at most MaxEntries entries, no link twice
FeedContents(f) == {s \in SeqsUpTo(LinksOf(f), Min(MaxEntries, Cardinality(LinksOf(f)))) : Distinct(s)}

NValues == (0 - 1)..MaxN

Outputs == {"email", "console", "file"}

-----------------------------------------------------------------------------
(* Python helpers *)

Range(s) == {s[n] : n \in 1..Len(s)}

\* s[:n] of a Python list, negative n included
Slice(s, n) ==
    IF n >= 0 THEN SubSeq(s, 1, Min(n, Len(s)))
              ELSE SubSeq(s, 1, Max(Len(s) + n, 0))

EmptyDict == [f \in {} |-> <<>>]

\* d with d[f] = v, the key created when absent
DictSet(d, f, v) == [g \in DOMAIN d \cup {f} |-> IF g = f THEN v ELSE d[g]]

\* the history of a feed, an absent key read as the empty list
History(d, f) == IF f \in DOMAIN d THEN d[f] ELSE <<>>

-----------------------------------------------------------------------------
(* The state file *)

FileKinds == {"absent", "garbage", "array", "undecodable", "dict"}

\* load_seen_articles: what it returns, or that it raises
load_seen_articles(fl) ==
    CASE fl.kind = "absent"      -> [raises |-> FALSE, is_dict |-> TRUE,  value |-> EmptyDict]
      [] fl.kind = "garbage"     -> [raises |-> FALSE, is_dict |-> TRUE,  value |-> EmptyDict]
      [] fl.kind = "array"       -> [raises |-> FALSE, is_dict |-> FALSE, value |-> EmptyDict]
      [] fl.kind = "undecodable" -> [raises |-> TRUE,  is_dict |-> TRUE,  value |-> EmptyDict]
      [] OTHER                   -> [raises |-> FALSE, is_dict |-> TRUE,  value |-> fl.map]

\* save_seen_articles: the file after json.dump of the dictionary
save_seen_articles(d) == [kind |-> "dict", map |-> d]

-----------------------------------------------------------------------------
(* fetch_rss_articles: one feed *)

\* ScanEntries with the break replaced by a continue
RECURSIVE ScanEntries_SkipSeen(_, _, _)
ScanEntries_SkipSeen(window, hist, j) ==
    IF j > Len(window) THEN <<>>
    ELSE IF window[j] \in Range(hist) THEN ScanEntries_SkipSeen(window, hist, j + 1)
    ELSE <<window[j]>> \o ScanEntries_SkipSeen(window, hist, j + 1)

\* the loop over feed.entries[:max_articles_per_feed] from position j on: the links
\* appended to new_seen_articles, the loop left at the first link already seen
RECURSIVE ScanEntries(_, _, _)
ScanEntries(window, hist, j) ==
    IF j > Len(window) THEN <<>>
    ELSE IF window[j] \in Range(hist) THEN <<>>
    ELSE <<window[j]>> \o ScanEntries(window, hist, j + 1)

\* content = " ".join(values).strip()
JoinedContent(l) == IF ContentOf(l) = "text" THEN "text" ELSE ""

\* ReadingTimeSource with the description taken as text to estimate from
ReadingTimeSource_OrDescription(l) ==
    IF JoinedContent(l) # "" \/ DescriptionOf(l) # "" THEN "text" ELSE "url"

\* where reading_time comes from: the inline text, or get_reading_time_from_url
ReadingTimeSource(l) == IF JoinedContent(l) # "" THEN "text" ELSE "url"

\* the dictionary appended to articles for an entry
Article(f, l) ==
    [feed |-> f, link |-> l, reading_time |-> ReadingTimeSource(l),
     content |-> IF JoinedContent(l) # "" THEN JoinedContent(l) ELSE DescriptionOf(l)]

ArticlesOf(f, new) == [n \in 1..Len(new) |-> Article(f, new[n])]

\* RecordBatch without the truncation of line 122
RecordBatch_NoLimit(hist, new, n) == new \o hist

\* RecordBatch keeping the last n links instead of the first n
RecordBatch_KeepOldest(hist, new, n) ==
    IF n >= 0 THEN SubSeq(new \o hist, Max(Len(new \o hist) - n, 0) + 1, Len(new \o hist))
              ELSE Slice(new \o hist, n)

\* RecordBatch with the new links put behind the old ones
RecordBatch_Append(hist, new, n) == Slice(hist \o new, n)

\* seen_articles[feed_url] after lines 119 and 122
RecordBatch(hist, new, n) == Slice(new \o hist, n)

-----------------------------------------------------------------------------
(* The environment: the feeds' content between two runs *)

\* the feed's entry list becomes e (publication, removal, reordering, outage)
Republish(f, e) ==
    /\ pc = "idle"
    /\ e # upstream[f]
    /\ upstream' = [upstream EXCEPT ![f] = e]
    /\ UNCHANGED program

\* the feed publishes one entry whose link it never carried, on top of the list
Prepend(f, l) ==
    /\ pc = "idle"
    /\ l \notin Range(upstream[f])
    /\ upstream' = [upstream EXCEPT ![f] = <<l>> \o upstream[f]]
    /\ UNCHANGED program

-----------------------------------------------------------------------------
(* One run of the script *)

\* __main__ up to the call of fetch_rss_articles: the arguments, the state file
StartRun(n, o) ==
    /\ pc = "idle"
    /\ LET r == load_seen_articles(file) IN
         /\ pc' = IF r.raises THEN "crashed" ELSE "fetch"
         /\ exc' = IF r.raises THEN "UnicodeDecodeError" ELSE ""
         /\ seen_articles' = r.value
         /\ seen_is_dict' = r.is_dict
    /\ max_articles' = n
    /\ output' = o
    /\ i' = 1
    /\ UNCHANGED <<file, upstream, new_seen_articles, articles, k, results, logged>>

\* one iteration of the loop over feed_urls, the feed parsed as entries
FetchFeedAs(entries) ==
    /\ pc = "fetch"
    /\ LET f == RSS_FEEDS[i] IN
         IF ~seen_is_dict
         THEN \* seen_articles[feed_url] = [] on a list raises TypeError
              /\ pc' = "crashed"
              /\ exc' = "TypeError"
              /\ UNCHANGED <<seen_articles, new_seen_articles, articles, i>>
         ELSE LET hist == History(seen_articles, f)
                  new  == ScanEntries(Slice(entries, max_articles), hist, 1)
              IN  /\ new_seen_articles' = new
                  /\ articles' = articles \o ArticlesOf(f, new)
                  /\ seen_articles' = DictSet(seen_articles, f, RecordBatch(hist, new, max_articles))
                  /\ i' = i + 1
                  /\ pc' = IF i = Len(RSS_FEEDS) THEN "save" ELSE "fetch"
                  /\ exc' = ""
    /\ UNCHANGED <<file, upstream, max_articles, output, seen_is_dict, k, results, logged>>

\* the feed parsed as what it carries now
FetchFeed == pc = "fetch" /\ FetchFeedAs(upstream[RSS_FEEDS[i]])

\* the retrieval fails and feedparser returns no entries
FetchFeedNothing == pc = "fetch" /\ upstream[RSS_FEEDS[i]] # <<>> /\ FetchFeedAs(<<>>)

\* feedparser.parse raises: nothing catches it, the process ends
FetchFeedRaises ==
    /\ pc = "fetch"
    /\ seen_is_dict
    /\ seen_articles' = DictSet(seen_articles, RSS_FEEDS[i], History(seen_articles, RSS_FEEDS[i]))
    /\ pc' = "crashed"
    /\ exc' = "FetchError"
    /\ UNCHANGED <<file, upstream, max_articles, output, seen_is_dict, i,
                   new_seen_articles, articles, k, results, logged>>

\* save_seen_articles(seen_articles) and the return of articles
SaveSeen ==
    /\ pc = "save"
    /\ file' = save_seen_articles(seen_articles)
    /\ pc' = IF articles = <<>> THEN "done" ELSE "dispatch"
    /\ k' = 1
    /\ UNCHANGED <<upstream, exc, max_articles, output, seen_articles, seen_is_dict,
                   i, new_seen_articles, articles, results, logged>>

\* one iteration of the dispatch loop, ending as r
DispatchAs(r) ==
    /\ pc = "dispatch"
    /\ results' = Append(results, r)
    /\ logged' = IF r = "send_error" THEN logged \cup {k} ELSE logged
    /\ k' = k + 1
    /\ pc' = IF r = "raised" THEN "crashed" ELSE IF k = Len(articles) THEN "done" ELSE "dispatch"
    /\ exc' = IF r = "raised" THEN "DispatchError" ELSE ""
    /\ UNCHANGED <<file, upstream, max_articles, output, seen_articles, seen_is_dict,
                   i, new_seen_articles, articles>>

\* output_to_console(article)
output_to_console == output = "console" /\ DispatchAs("console")

\* send_email_with_gmail_api: the message is sent
send_email_sent == output = "email" /\ DispatchAs("email")

\* send_email_with_gmail_api: execute() raises, the except clause logs it
send_email_send_fails == output = "email" /\ DispatchAs("send_error")

\* send_email_with_gmail_api: the credentials, the service or the message raise before the try
send_email_raises == output = "email" /\ DispatchAs("raised")

\* --output file: neither branch of the loop body applies
dispatch_file == output = "file" /\ DispatchAs("none")

\* the process ends; the next run starts from the state file alone
Exit ==
    /\ pc \in {"done", "crashed"}
    /\ pc' = "idle"
    /\ exc' = ""
    /\ max_articles' = 0
    /\ output' = "console"
    /\ seen_articles' = EmptyDict
    /\ seen_is_dict' = TRUE
    /\ i' = 1
    /\ new_seen_articles' = <<>>
    /\ articles' = <<>>
    /\ k' = 0
    /\ results' = <<>>
    /\ logged' = {}
    /\ UNCHANGED <<file, upstream>>

-----------------------------------------------------------------------------
(* Spec: any feed content, any max_articles and output per run *)

InitialFiles == {[kind |-> kd, map |-> EmptyDict] : kd \in FileKinds \ {"dict"}}

InitProgram ==
    /\ pc = "idle"
    /\ exc = ""
    /\ max_articles = 0
    /\ output = "console"
    /\ seen_articles = EmptyDict
    /\ seen_is_dict = TRUE
    /\ i = 1
    /\ new_seen_articles = <<>>
    /\ articles = <<>>
    /\ k = 0
    /\ results = <<>>
    /\ logged = {}

InitHistory ==
    /\ prev_run = <<>>
    /\ emitted = [f \in Feeds |-> {}]
    /\ fixed_N = <<>>

Init ==
    /\ file \in InitialFiles
    /\ upstream = [f \in Feeds |-> <<>>]
    /\ InitProgram
    /\ InitHistory

HistoryKept == UNCHANGED <<prev_run, emitted, fixed_N>>

Next ==
    \/ \E f \in Feeds : \E e \in FeedContents(f) : Republish(f, e) /\ HistoryKept
    \/ \E n \in NValues : \E o \in Outputs : StartRun(n, o) /\ HistoryKept
    \/ FetchFeed /\ HistoryKept
    \/ FetchFeedRaises /\ HistoryKept
    \/ SaveSeen /\ HistoryKept
    \/ output_to_console /\ HistoryKept
    \/ send_email_sent /\ HistoryKept
    \/ send_email_send_fails /\ HistoryKept
    \/ send_email_raises /\ HistoryKept
    \/ dispatch_file /\ HistoryKept
    \/ Exit /\ HistoryKept

Spec == Init /\ [][Next]_vars

-----------------------------------------------------------------------------
(* SpecRerun: as Spec with console output, remembering the last run that saved *)

\* the dictionary the current run loaded, read back from the file it has not yet rewritten
LoadedDict == load_seen_articles(file).value

\* every feed's history held at most n links when the current run started
Fits(n) == \A f \in Feeds : Len(History(LoadedDict, f)) <= n

SameAsPrevRun == prev_run # <<>> /\ prev_run[1].N = max_articles

SaveSeenRerun ==
    /\ SaveSeen
    /\ prev_run' = <<[N |-> max_articles, fit |-> Fits(max_articles),
                      rerun |-> SameAsPrevRun /\ prev_run[1].fit]>>
    /\ UNCHANGED <<emitted, fixed_N>>

NextRerun ==
    \/ \E f \in Feeds : \E e \in FeedContents(f) :
          Republish(f, e) /\ prev_run' = <<>> /\ UNCHANGED <<emitted, fixed_N>>
    \/ \E n \in NValues : StartRun(n, "console") /\ HistoryKept
    \/ FetchFeed /\ HistoryKept
    \/ FetchFeedRaises /\ HistoryKept
    \/ SaveSeenRerun
    \/ output_to_console /\ HistoryKept
    \/ Exit /\ HistoryKept

SpecRerun == Init /\ [][NextRerun]_vars

-----------------------------------------------------------------------------
(* SpecPrepend: one max_articles >= 1 for every run, feeds that only grow at the top *)

\* the links of feed f among the articles a completed fetch_rss_articles returned
ReturnedLinks(f) ==
    IF pc = "done"
    THEN {articles[n].link : n \in {m \in 1..Len(articles) : articles[m].feed = f}}
    ELSE {}

StartRunFixed(n) ==
    /\ n >= 1
    /\ fixed_N \in {<<>>, <<n>>}
    /\ StartRun(n, "console")
    /\ fixed_N' = <<n>>
    /\ UNCHANGED <<prev_run, emitted>>

ExitPrepend ==
    /\ Exit
    /\ emitted' = [f \in Feeds |-> emitted[f] \cup ReturnedLinks(f)]
    /\ UNCHANGED <<prev_run, fixed_N>>

NextPrepend ==
    \/ \E f \in Feeds : \E l \in LinksOf(f) : Prepend(f, l) /\ HistoryKept
    \/ \E n \in NValues : StartRunFixed(n)
    \/ FetchFeed /\ HistoryKept
    \/ FetchFeedNothing /\ HistoryKept
    \/ FetchFeedRaises /\ HistoryKept
    \/ SaveSeen /\ HistoryKept
    \/ output_to_console /\ HistoryKept
    \/ ExitPrepend

SpecPrepend == Init /\ [][NextPrepend]_vars

-----------------------------------------------------------------------------
(* What the claims speak of *)

\* a loop iteration of fetch_rss_articles that ran to its end (lines 80-122)
FeedStep == pc = "fetch" /\ seen_is_dict /\ i' = i + 1

\* the feeds the current run has processed so far
Processed == {RSS_FEEDS[n] : n \in 1..(i - 1)}

\* the first n entries of s; for n < 0 what the code's s[:n] keeps, all but the last -n
FirstN(s, n) == [m \in 1..(IF n >= 0 THEN Min(n, Len(s)) ELSE Max(Len(s) + n, 0)) |-> s[m]]

\* position of the first entry of window whose link is in hist, Len(window) + 1 when none is
FirstSeen(window, hist) ==
    IF \E j \in 1..Len(window) : window[j] \in Range(hist)
    THEN CHOOSE j \in 1..Len(window) :
            /\ window[j] \in Range(hist)
            /\ \A m \in 1..(j - 1) : window[m] \notin Range(hist)
    ELSE Len(window) + 1

\* the articles the step appended to the list
Appended == SubSeq(articles', Len(articles) + 1, Len(articles'))

\* what fetch_rss_articles returned: nothing when an exception left it
Returned == IF pc \in {"save", "dispatch", "done"} \/ exc = "DispatchError" THEN articles ELSE <<>>

ArticlesOfFeed(f) == {n \in 1..Len(Returned) : Returned[n].feed = f}

-----------------------------------------------------------------------------
(* C1 *)

\* C1 as stated: once fetch_rss_articles has mutated the dictionary, the history of
\* every feed in it holds at most N = max_articles links.
C1_EveryFeedBounded ==
    (pc \in {"fetch", "save", "dispatch", "done"} /\ i > 1)
        => \A f \in DOMAIN seen_articles : Len(seen_articles[f]) <= max_articles

\* C1 amended: in a run with max_articles >= 0, every feed the run has processed holds
\* at most max_articles links from then on (feeds not yet processed keep the length an
\* earlier run left them).
C1_ProcessedFeedBounded ==
    (seen_is_dict /\ max_articles >= 0)
        => \A f \in Processed :
               f \in DOMAIN seen_articles /\ Len(seen_articles[f]) <= max_articles

\* a feed whose history was full got a new link and is full again
C1_Witness ==
    /\ pc = "fetch" /\ i = 2 /\ max_articles = 1
    /\ Len(History(LoadedDict, "f1")) = 1
    /\ Len(new_seen_articles) = 1
    /\ Len(seen_articles["f1"]) = 1

-----------------------------------------------------------------------------
(* C2 *)

\* C2 as stated: a run that saves after a run with the same max_articles, the feeds
\* unchanged in between, returns no article and writes the file as it was.
C2_RerunIdempotent ==
    [][(pc = "save" /\ pc' # "save" /\ SameAsPrevRun)
          => (articles = <<>> /\ file' = file)]_vars

\* C2 amended: the same, provided every feed's history held at most max_articles links
\* when the first of the two runs started.
C2_RerunIdempotentWhenFit ==
    [][(pc = "save" /\ pc' # "save" /\ SameAsPrevRun /\ prev_run[1].fit)
          => (articles = <<>> /\ file' = file)]_vars

\* a second run over a feed with more entries than max_articles, its history not empty
C2_Witness ==
    /\ pc = "done" /\ prev_run # <<>> /\ prev_run[1].rerun
    /\ Len(upstream["f1"]) > prev_run[1].N
    /\ History(file.map, "f1") # <<>>
    /\ History(file.map, "f2") # <<>>

-----------------------------------------------------------------------------
(* C3 *)

\* C3: a loop iteration emits exactly the entries of the window (the first max_articles
\* entries) before the first one whose link is in the feed's history; no later entry is
\* emitted or recorded, new or not; the history becomes the emitted links followed by the
\* old history, cut to max_articles.
C3_ScanStopsAtFirstSeen ==
    [][FeedStep =>
         LET f      == RSS_FEEDS[i]
             hist   == History(seen_articles, f)
             window == FirstN(upstream[f], max_articles)
             stop   == FirstSeen(window, hist)
             before == [n \in 1..(stop - 1) |-> window[n]]
         IN  /\ SubSeq(articles', 1, Len(articles)) = articles
             /\ Len(Appended) = Len(before)
             /\ \A n \in 1..Len(before) :
                    Appended[n].feed = f /\ Appended[n].link = before[n]
             /\ new_seen_articles' = before
             /\ seen_articles'[f] = FirstN(before \o hist, max_articles)
             /\ \A n \in (stop + 1)..Len(upstream[f]) :
                    upstream[f][n] \notin Range(hist) =>
                        /\ \A m \in 1..Len(Appended) : Appended[m].link # upstream[f][n]
                        /\ upstream[f][n] \notin Range(seen_articles'[f])
      ]_vars

\* history [A,B], entries [X,A,Z]: only X is emitted, the history is [X,A,B] cut to 2
C3_Witness ==
    /\ pc = "fetch" /\ i = 2 /\ max_articles = 2
    /\ History(LoadedDict, "f1") = <<"A", "B">>
    /\ upstream["f1"] = <<"X", "A", "Z">>
    /\ new_seen_articles = <<"X">>
    /\ Len(articles) = 1 /\ articles[1].link = "X"
    /\ seen_articles["f1"] = <<"X", "A">>

-----------------------------------------------------------------------------
(* C4 *)

\* C4: when the feed's history has h <= max_articles links, recording the k new links
\* of a loop iteration leaves min(h + k, N) links, the first min(k, N) of them the new
\* links in order, the rest the newest of the old history.
C4_RecordBatchLength ==
    [][FeedStep =>
         LET f    == RSS_FEEDS[i]
             hist == History(seen_articles, f)
             new  == new_seen_articles'
             h    == Len(hist)
             kk   == Len(new)
             res  == seen_articles'[f]
         IN  h <= max_articles =>
               /\ Range(new) \cap Range(hist) = {}
               /\ Len(res) = Min(h + kk, max_articles)
               /\ \A n \in 1..Min(kk, max_articles) : res[n] = new[n]
               /\ \A n \in (kk + 1)..Len(res) : res[n] = hist[n - kk]
      ]_vars

\* a full history of two gets one new link: the oldest one is evicted
C4_Witness ==
    /\ pc = "fetch" /\ i = 2 /\ max_articles = 2
    /\ History(LoadedDict, "f1") = <<"A", "B">>
    /\ new_seen_articles = <<"Z">>
    /\ seen_articles["f1"] = <<"Z", "A">>

-----------------------------------------------------------------------------
(* C5 *)

\* C5: when the run is over, every returned article has been handed to a sink, whichever
\* of console, file and email was selected.
C5_EveryArticleDispatched ==
    pc = "done" =>
        /\ Len(results) = Len(articles)
        /\ \A n \in 1..Len(articles) : results[n] # "none"

-----------------------------------------------------------------------------
(* C6 *)

\* the feeds whose fetch failed entirely in the current run: no entries, or an exception
FailedFeeds ==
    {RSS_FEEDS[n] : n \in {m \in 1..(i - 1) : upstream[RSS_FEEDS[m]] = <<>>}}
        \cup (IF exc = "FetchError" THEN {RSS_FEEDS[i]} ELSE {})

\* the feeds that have an entry to emit in a run with the loaded dictionary
FeedsWithNews ==
    {g \in Feeds : /\ FirstN(upstream[g], max_articles) # <<>>
                   /\ upstream[g][1] \notin Range(History(LoadedDict, g))}

\* C6: when fetch_rss_articles is over and the fetch of a feed failed, no article of that
\* feed is returned, its history is as it was loaded, and every other feed that has new
\* entries has articles in the returned list.
C6_FailedFeedIsolated ==
    (pc = "save" \/ exc = "FetchError") =>
        \A f \in FailedFeeds :
            /\ ArticlesOfFeed(f) = {}
            /\ History(seen_articles, f) = History(LoadedDict, f)
            /\ \A g \in FeedsWithNews \ {f} : ArticlesOfFeed(g) # {}

-----------------------------------------------------------------------------
(* C7 *)

\* C7: load_seen_articles does not raise, and with a state file that is absent or is not
\* a mapping of feeds to lists it returns the empty dictionary, so that the loop over the
\* feeds runs on it.
C7_LoadNeverRaises ==
    /\ exc # "UnicodeDecodeError"
    /\ exc # "TypeError"
    /\ (pc = "fetch" /\ i = 1 /\ file.kind # "dict")
          => (seen_is_dict /\ seen_articles = EmptyDict)

-----------------------------------------------------------------------------
(* C8 *)

\* C8: when the run has ended, every article whose dispatch failed has been reported,
\* every article after it has been dispatched, and the file still holds what the run
\* saved.
C8_DispatchFailureIsolated ==
    (pc \in {"done", "crashed"} /\ k >= 1) =>
        \A n \in 1..Len(results) :
            results[n] \in {"send_error", "raised"} =>
                /\ n \in logged
                /\ \A m \in (n + 1)..Len(articles) :
                       m <= Len(results) /\ results[m] \in {"email", "send_error", "console"}
                /\ file = save_seen_articles(seen_articles)

-----------------------------------------------------------------------------
(* C9 *)

\* C9: with one max_articles >= 1 for all runs and feeds that only grow at the top by
\* fresh links, no article a run returns has a link an earlier run returned for that feed.
C9_NoLinkEmittedTwice ==
    \A n \in 1..Len(Returned) : Returned[n].link \notin emitted[Returned[n].feed]

\* a run returns a new article while a link returned earlier, still in the feed, has
\* been rotated out of the history
C9_Witness ==
    /\ pc = "done" /\ articles # <<>>
    /\ \E l \in emitted["f1"] :
          l \in Range(upstream["f1"]) /\ l \notin Range(History(file.map, "f1"))

-----------------------------------------------------------------------------
(* C10 *)

\* C10 as stated: the reading time of an article comes from get_reading_time_from_url
\* exactly when its entry has neither inline content nor a description.
C10_UrlOnlyWithoutContentAndDescription ==
    \A n \in 1..Len(articles) :
        articles[n].reading_time = "url"
            <=> (ContentOf(articles[n].link) = "none" /\ DescriptionOf(articles[n].link) = "")

\* C10 amended: the reading time comes from get_reading_time_from_url exactly when the
\* entry has no inline content other than whitespace, whether it has a description or not.
C10_UrlWithoutInlineText ==
    \A n \in 1..Len(articles) :
        articles[n].reading_time = "url" <=> ContentOf(articles[n].link) \in {"none", "blank"}

\* an entry with a description and no inline content: its reading time comes from the link
C10_Witness ==
    \E n \in 1..Len(articles) :
        /\ articles[n].link = "B"
        /\ DescriptionOf("B") # ""
        /\ articles[n].reading_time = "url"
        /\ articles[n].content = DescriptionOf("B")

====
